---- MODULE Spec2Model ----
(***************************************************************************)
(* A model of the MRF class of LBP.py: the data array (four message        *)
(* channels and the base channel per cell), the smoothness table, and the  *)
(* operations init_base_belief, init_smoothness, pass_messages and         *)
(* calc_belief.                                                            *)
(*                                                                         *)
(* Numbers.  The code works in float32.  The model works in exact          *)
(* nonnegative rationals: a vector is a record [n |-> numerators,          *)
(* d |-> common denominator], entry k having the value n[k]/d.  d = 0      *)
(* stands for a vector of NaN, which is what a division by a zero sum      *)
(* produces (1/0 = inf, 0*inf = NaN) and what any arithmetic on NaN        *)
(* keeps producing.  Rounding and underflow of float32 are not modelled.   *)
(***************************************************************************)
EXTENDS Integers, Sequences, FiniteSets, TLC

\* ---------------------------------------------------------------- bounds
MaxH == 2           \* grid heights 1 and MaxH
MaxW == 3           \* grid widths 1 and MaxW
MaxK == 2           \* belief counts 1 and MaxK
MaxSteps == 2       \* calls made on one MRF after its construction
MaxNum == 60        \* largest numerator a pass or a decoding starts from

\* ------------------------------------------------------------ directions
RIGHT == 0
UP == 1
LEFT == 2
DOWN == 3
BASE == 4
DIRECTIONS == {RIGHT, UP, LEFT, DOWN, BASE}

MessageDirs == <<RIGHT, UP, LEFT, DOWN>>

\* ------------------------------------------------------------ arithmetic
RECURSIVE SumTo(_, _)
SumTo(f, n) == IF n = 0 THEN 0 ELSE f[n - 1] + SumTo(f, n - 1)

RECURSIVE ProdTo(_, _)
ProdTo(f, n) == IF n = 0 THEN 1 ELSE f[n - 1] * ProdTo(f, n - 1)

RECURSIVE Gcd(_, _)
Gcd(a, b) == IF b = 0 THEN a ELSE Gcd(b, a % b)

RECURSIVE GcdTo(_, _)
GcdTo(f, n) == IF n = 0 THEN 0 ELSE Gcd(f[n - 1], GcdTo(f, n - 1))

Len0(v) == Cardinality(DOMAIN v)

NaNVec(k) == [n |-> [j \in 0..(k - 1) |-> 0], d |-> 0]

IsNaN(v) == v.d = 0

\* every entry divided by the largest entry
NormalizedByMax(raw) ==
    LET k == Len0(raw)
        g == GcdTo(raw, k)
        m == CHOOSE x \in {raw[j] : j \in DOMAIN raw} :
                 \A j \in DOMAIN raw : raw[j] <= x
    IN  IF m = 0 THEN NaNVec(k)
        ELSE [n |-> [j \in 0..(k - 1) |-> raw[j] \div g], d |-> m \div g]

\* x * (1 / sum(x)): every entry divided by the sum of the entries; a zero
\* sum gives inf, and 0 * inf gives NaN in every entry.
Normalized(raw) ==
    LET k == Len0(raw)
        s == SumTo(raw, k)
        g == GcdTo(raw, k)
    IN  IF s = 0 THEN NaNVec(k)
        ELSE [n |-> [j \in 0..(k - 1) |-> raw[j] \div g], d |-> s \div g]

Uniform(k) == [n |-> [j \in 0..(k - 1) |-> 1], d |-> k]


\* ----------------------------------------------------------------- state
VARIABLES
    height,         \* self.height
    width,          \* self.width
    num_beliefs,    \* self.num_beliefs
    data,           \* self.data: cell -> channel -> vector
    smoothness,     \* self.smoothness: row -> vector, or Unset
    belief,         \* the array calc_belief returned last, or NoBelief
    prev,           \* history: data and smoothness before the last call
    last,           \* history: the last call, its argument and its outcome
    positive,       \* history: no array given had an entry equal to zero
    supplied,       \* history: a base belief, a smoothness array was given
    steps           \* calls made so far

vars == <<height, width, num_beliefs, data, smoothness, belief,
          prev, last, positive, supplied, steps>>

Unset == <<>>
NoBelief == <<>>

Beliefs == 0..(num_beliefs - 1)
Cells == (0..(height - 1)) \X (0..(width - 1))

\* the array of ones, not divided by num_beliefs
InitDataOnes(h, w, k) ==
    [c \in (0..(h - 1)) \X (0..(w - 1)) |->
        [ch \in DIRECTIONS |-> [n |-> [j \in 0..(k - 1) |-> 1], d |-> 1]]]

\* numpy.ones(shape = (height, width, 5, num_beliefs)) / num_beliefs
InitData(h, w, k) ==
    [c \in (0..(h - 1)) \X (0..(w - 1)) |-> [ch \in DIRECTIONS |-> Uniform(k)]]

\* ---------------------------------------------------------------- inputs
\* base_beliefs[y][x][j], an h by w by k array of relative likelihoods
BasePattern(pat, y, x, j) ==
    CASE pat = "ones"   -> 1
      [] pat = "onehot" -> IF j = 0 THEN 1 ELSE 0
      [] OTHER     -> 1 + ((x + 2 * y + j) % 3)

BaseInput(h, w, k, pat) ==
    [y \in 0..(h - 1) |-> [x \in 0..(w - 1) |->
        [j \in 0..(k - 1) |-> BasePattern(pat, y, x, j)]]]

\* smoothness[a][b], a rows by cols array
SmoothPattern(pat, k, a, b) ==
    CASE pat = "ones"   -> 1
      [] pat = "onehot" -> IF b = (a + 1) % k THEN 1 ELSE 0
      [] OTHER     -> IF a = b THEN 3 ELSE IF a < b THEN 2 ELSE 1

SmoothInput(rows, cols, pat) ==
    [a \in 0..(rows - 1) |-> [b \in 0..(cols - 1) |->
        SmoothPattern(pat, cols, a, b)]]

Patterns == {"ones", "onehot", "varied"}

\* the base beliefs given: all ones is what a new MRF holds already
BasePatterns == {"onehot", "varied"}

AllPositive3(arr) ==
    \A y \in DOMAIN arr : \A x \in DOMAIN arr[y] : \A j \in DOMAIN arr[y][x] :
        arr[y][x][j] > 0

AllPositive2(arr) ==
    \A a \in DOMAIN arr : \A b \in DOMAIN arr[a] : arr[a][b] > 0

\* ------------------------------------------------------ init_base_belief
\* the check of the number of beliefs left out
InitBaseBeliefErrorNoCount(base_beliefs, dat) ==
    IF \/ Len0(base_beliefs) # height
       \/ Len0(base_beliefs[0]) # width
    THEN "ShapeMismatch"
    ELSE "none"

InitBaseBeliefError(base_beliefs, dat) ==
    IF \/ Len0(base_beliefs) # height
       \/ Len0(base_beliefs[0]) # width
    THEN "ShapeMismatch"
    ELSE IF Len0(base_beliefs[0][0]) # Len0(dat[<<0, 0>>][RIGHT].n)
         THEN "BeliefCountMismatch"
         ELSE "none"

InitBaseBeliefData(dat, base_beliefs) ==
    [c \in DOMAIN dat |->
        [dat[c] EXCEPT ![BASE] = Normalized(base_beliefs[c[1]][c[2]])]]

\* ------------------------------------------------------- init_smoothness
InitSmoothnessError(sm) ==
    IF Len0(sm) # num_beliefs \/ Len0(sm[0]) # num_beliefs
    THEN "ShapeMismatch"
    ELSE "none"

InitSmoothnessTable(sm) == [a \in DOMAIN sm |-> Normalized(sm[a])]

\* --------------------------------------------------------- pass_messages
\* from_slice: the cells that send in the given direction
FromSlice(direction) ==
    CASE direction = RIGHT -> {c \in Cells : c[2] <= width - 2}
      [] direction = UP    -> {c \in Cells : c[1] >= 1}
      [] direction = LEFT  -> {c \in Cells : c[2] >= 1}
      [] direction = DOWN  -> {c \in Cells : c[1] <= height - 2}

ToCellSame(direction, c) == c

\* to_slice: the cell at the same index of to_slice as c has in from_slice
ToCell(direction, c) ==
    CASE direction = RIGHT -> <<c[1], c[2] + 1>>
      [] direction = UP    -> <<c[1] - 1, c[2]>>
      [] direction = LEFT  -> <<c[1], c[2] - 1>>
      [] direction = DOWN  -> <<c[1] + 1, c[2]>>

FromDirSame(direction) == direction

\* from_dir: the channel of the receiving cell the message is stored in
FromDir(direction) ==
    CASE direction = RIGHT -> LEFT
      [] direction = UP    -> DOWN
      [] direction = LEFT  -> RIGHT
      [] direction = DOWN  -> UP

ToDirOpposite(direction) == (direction + 2) % 4

\* to_dir: the channel of the sending cell left out of the product
ToDir(direction) ==
    CASE direction = RIGHT -> RIGHT
      [] direction = UP    -> UP
      [] direction = LEFT  -> LEFT
      [] direction = DOWN  -> DOWN

\* a pass that does not notice the missing smoothness table
PassErrorNoTable(direction, sm) ==
    IF direction \in {RIGHT, UP, LEFT, DOWN} THEN "none"
    ELSE "InvalidDirection"

PassError(direction, sm) ==
    IF direction \in {RIGHT, UP, LEFT, DOWN}
    THEN IF sm = Unset THEN "SmoothnessUnset" ELSE "none"
    ELSE "InvalidDirection"

\* the rows of the smoothness table over one common denominator
SmoothScaled(sm, a, b) ==
    sm[a].n[b] * ProdTo([i \in DOMAIN sm |-> IF i = a THEN 1 ELSE sm[i].d],
                        Len0(sm))

\* the product over the message channels of cell c other than to_dir,
\* at belief index b
RECURSIVE Included(_, _, _, _, _)
Included(dat, c, to_dir, b, i) ==
    IF i > Len(MessageDirs) THEN 1
    ELSE (IF MessageDirs[i] = to_dir THEN 1 ELSE dat[c][MessageDirs[i]].n[b])
         * Included(dat, c, to_dir, b, i + 1)

\* the base belief broadcast along the summed axis
WorkingBaseSummed(dat, sm, direction, c) ==
    [a \in DOMAIN sm |-> [b \in DOMAIN sm |->
        SmoothScaled(sm, a, b) * dat[c][BASE].n[b]
            * Included(dat, c, ToDir(direction), b, 1)]]

\* working_slice at cell c after lines 211 to 233, axes 2 and 3
Working(dat, sm, direction, c) ==
    [a \in DOMAIN sm |-> [b \in DOMAIN sm |->
        SmoothScaled(sm, a, b) * dat[c][BASE].n[a]
            * Included(dat, c, ToDir(direction), b, 1)]]

\* some factor of working_slice at cell c is NaN
WorkingNaN(dat, sm, direction, c) ==
    \/ \E a \in DOMAIN sm : IsNaN(sm[a])
    \/ IsNaN(dat[c][BASE])
    \/ \E d \in {RIGHT, UP, LEFT, DOWN} \ {ToDir(direction)} : IsNaN(dat[c][d])

\* the sum over axis 3 of working_slice at cell c, normalized
Message(dat, sm, direction, c) ==
    IF WorkingNaN(dat, sm, direction, c) THEN NaNVec(Len0(sm))
    ELSE LET w == Working(dat, sm, direction, c)
         IN  Normalized([a \in DOMAIN sm |-> SumTo(w[a], Len0(sm))])

\* a pass made cell by cell, in row-major order, on the array itself: a
\* sender reads what the pass has already written
RECURSIVE InPlaceFrom(_, _, _, _)
InPlaceFrom(dat, sm, direction, i) ==
    IF i >= height * width THEN dat
    ELSE LET c == <<i \div width, i % width>>
         IN  IF c \in FromSlice(direction)
             THEN InPlaceFrom(
                      [dat EXCEPT ![ToCell(direction, c)][FromDir(direction)] =
                                      Message(dat, sm, direction, c)],
                      sm, direction, i + 1)
             ELSE InPlaceFrom(dat, sm, direction, i + 1)

PassMessagesInPlace(dat, sm, direction) == InPlaceFrom(dat, sm, direction, 0)

\* one pass in one direction: every message is computed into the working
\* array from dat, and only then written to to_slice
PassMessages(dat, sm, direction) ==
    [r \in DOMAIN dat |->
        IF \E c \in FromSlice(direction) : ToCell(direction, c) = r
        THEN LET c == CHOOSE c \in FromSlice(direction) :
                          ToCell(direction, c) = r
             IN  [dat[r] EXCEPT ![FromDir(direction)] =
                                    Message(dat, sm, direction, c)]
        ELSE dat[r]]

SweepOrderRowsFirst == <<RIGHT, LEFT, UP, DOWN>>

\* pass_messages(None): the order of the four passes
SweepOrder == <<RIGHT, UP, LEFT, DOWN>>

RECURSIVE SweepFrom(_, _, _, _)
SweepFrom(dat, sm, order, i) ==
    IF i > Len(order) THEN dat
    ELSE SweepFrom(PassMessages(dat, sm, order[i]), sm, order, i + 1)

PassSweep(dat, sm) == SweepFrom(dat, sm, SweepOrder, 1)

\* ----------------------------------------------------------- calc_belief
\* self.data.prod(axis=2) at cell c, over the common denominator of the
\* five channels
BeliefProd(dat, c) ==
    [k \in DOMAIN dat[c][BASE].n |->
        ProdTo([ch \in 0..4 |-> dat[c][ch].n[k]], 5)]

BeliefNaN(dat, c) == \E ch \in DIRECTIONS : IsNaN(dat[c][ch])

\* a scan that keeps the last index of the largest entry
RECURSIVE ArgMaxFromLast(_, _, _)
ArgMaxFromLast(v, best, i) ==
    IF i >= Len0(v) THEN best
    ELSE ArgMaxFromLast(v, IF v[i] >= v[best] THEN i ELSE best, i + 1)

\* argmax: the scan keeps the first index of the largest entry
RECURSIVE ArgMaxFrom(_, _, _)
ArgMaxFrom(v, best, i) ==
    IF i >= Len0(v) THEN best
    ELSE ArgMaxFrom(v, IF v[i] > v[best] THEN i ELSE best, i + 1)

ArgMax(v) == ArgMaxFrom(v, 0, 1)

\* a product that is NaN in every entry: argmax gives the first NaN
CalcBelief(dat) ==
    [c \in DOMAIN dat |->
        IF BeliefNaN(dat, c) THEN 0 ELSE ArgMax(BeliefProd(dat, c))]

\* ----------------------------------------------------- bounds of the model
Small(dat) ==
    \A c \in DOMAIN dat : \A ch \in DIRECTIONS : \A k \in DOMAIN dat[c][ch].n :
        dat[c][ch].n[k] <= MaxNum

\* every pass of a sweep starts from small numerators
SmallSweep(dat, sm) ==
    \A i \in 1..Len(SweepOrder) :
        Small(SweepFrom(dat, sm, SubSeq(SweepOrder, 1, i - 1), 1))

\* ------------------------------------------------------------------ Init
\* the optional arguments of __init__: an array, or None
NoArg == "None"

Init ==
    \E bpat \in BasePatterns \cup {NoArg}, spat \in Patterns \cup {NoArg} :
        /\ height \in {1, MaxH}
        /\ width \in {1, MaxW}
        /\ num_beliefs \in {1, MaxK}
        /\ data = IF bpat = NoArg
                  THEN InitData(height, width, num_beliefs)
                  ELSE InitBaseBeliefData(
                           InitData(height, width, num_beliefs),
                           BaseInput(height, width, num_beliefs, bpat))
        /\ smoothness = IF spat = NoArg
                        THEN Unset
                        ELSE InitSmoothnessTable(
                                 SmoothInput(num_beliefs, num_beliefs, spat))
        /\ belief = NoBelief
        /\ prev = [data |-> data, smoothness |-> smoothness]
        /\ last = [op |-> "create", arg |-> <<>>, err |-> "none"]
        /\ positive =
               /\ bpat # NoArg =>
                      AllPositive3(BaseInput(height, width, num_beliefs, bpat))
               /\ spat # NoArg =>
                      AllPositive2(SmoothInput(num_beliefs, num_beliefs, spat))
        /\ supplied = [base |-> bpat # NoArg, smoothness |-> spat # NoArg]
        /\ steps = 0

Called(op, arg, err) ==
    /\ steps < MaxSteps
    /\ steps' = steps + 1
    /\ prev' = [data |-> data, smoothness |-> smoothness]
    /\ last' = [op |-> op, arg |-> arg, err |-> err]
    /\ UNCHANGED <<height, width, num_beliefs>>

\* ---------------------------------------------------------------- actions
\* the shapes of the arrays given: the right one, and wrong ones
BaseShapes ==
    {<<height, width, num_beliefs>>,
     <<height + 1, width, num_beliefs>>,
     <<height, width + 1, num_beliefs + 1>>,
     <<height, width, num_beliefs + 1>>}

SmoothShapes ==
    {<<num_beliefs, num_beliefs>>,
     <<num_beliefs + 1, num_beliefs>>,
     <<num_beliefs, num_beliefs + 1>>}

init_base_belief ==
    \E shape \in BaseShapes, pat \in BasePatterns :
        LET base_beliefs == BaseInput(shape[1], shape[2], shape[3], pat)
            err == InitBaseBeliefError(base_beliefs, data)
        IN  /\ err # "none" => pat = "varied"
            /\ Called("init_base_belief", shape, err)
            /\ IF err = "none"
               THEN /\ data' = InitBaseBeliefData(data, base_beliefs)
                    /\ positive' = (positive /\ AllPositive3(base_beliefs))
                    /\ supplied' = [supplied EXCEPT !.base = TRUE]
               ELSE UNCHANGED <<data, positive, supplied>>
            /\ UNCHANGED <<smoothness, belief>>

init_smoothness ==
    \E shape \in SmoothShapes, pat \in Patterns :
        LET sm == SmoothInput(shape[1], shape[2], pat)
            err == InitSmoothnessError(sm)
        IN  /\ err # "none" => pat = "varied"
            /\ Called("init_smoothness", shape, err)
            /\ IF err = "none"
               THEN /\ smoothness' = InitSmoothnessTable(sm)
                    /\ positive' = (positive /\ AllPositive2(sm))
                    /\ supplied' = [supplied EXCEPT !.smoothness = TRUE]
               ELSE UNCHANGED <<smoothness, positive, supplied>>
            /\ UNCHANGED <<data, belief>>

pass_messages ==
    \E direction \in 0..5 :
        LET err == PassError(direction, smoothness)
        IN  /\ Called("pass_messages", <<direction>>, err)
            /\ IF err = "none"
               THEN /\ Small(data)
                    /\ data' = PassMessages(data, smoothness, direction)
               ELSE UNCHANGED data
            /\ UNCHANGED <<smoothness, belief, positive, supplied>>

pass_messages_all ==
    LET err == PassError(SweepOrder[1], smoothness)
    IN  /\ Called("pass_messages_all", <<>>, err)
        /\ IF err = "none"
           THEN /\ SmallSweep(data, smoothness) = TRUE
                /\ data' = PassSweep(data, smoothness)
           ELSE UNCHANGED data
        /\ UNCHANGED <<smoothness, belief, positive, supplied>>

calc_belief ==
    /\ Small(data)
    /\ Called("calc_belief", <<>>, "none")
    /\ belief' = CalcBelief(data)
    /\ UNCHANGED <<data, smoothness, positive, supplied>>

Next ==
    \/ init_base_belief
    \/ init_smoothness
    \/ pass_messages
    \/ pass_messages_all
    \/ calc_belief

Spec == Init /\ [][Next]_vars

\* an MRF on which, once constructed, only passes are made
NextPasses ==
    \/ pass_messages
    \/ pass_messages_all

SpecPasses == Init /\ [][NextPasses]_vars

\* =================================================================== claims
\* the direction opposite to d
Opposite(d) ==
    CASE d = RIGHT -> LEFT
      [] d = LEFT  -> RIGHT
      [] d = UP    -> DOWN
      [] d = DOWN  -> UP

\* the cell next to c in direction d (y grows downwards, x rightwards)
Neighbor(c, d) ==
    CASE d = RIGHT -> <<c[1], c[2] + 1>>
      [] d = LEFT  -> <<c[1], c[2] - 1>>
      [] d = UP    -> <<c[1] - 1, c[2]>>
      [] d = DOWN  -> <<c[1] + 1, c[2]>>

HasNeighbor(c, d) == Neighbor(c, d) \in Cells

MessageChannels == {RIGHT, UP, LEFT, DOWN}

\* the last call was a pass in one direction that returned normally
PassOk ==
    last.op = "pass_messages" /\ last.err = "none"

SweepOk ==
    last.op = "pass_messages_all" /\ last.err = "none"

SumsToOne(v) == v.d > 0 /\ SumTo(v.n, Len0(v.n)) = v.d

\* some factor of the message cell c sends is NaN, the channel `out` of c
\* being the one left out
FactorNaN(dat, sm, c, out) ==
    \/ \E a \in DOMAIN sm : IsNaN(sm[a])
    \/ IsNaN(dat[c][BASE])
    \/ \E e \in MessageChannels \ {out} : IsNaN(dat[c][e])

\* ---------------------------------------------------------------------- C1
\* The raw message as the specification states it:
\*   raw[k] = sum_j smoothness[j][k] * base[j] * prod_{e # out} incoming[e][j]
\* with out = opposite(d).
RawAsSpecified(dat, sm, c, out) ==
    [k \in DOMAIN sm |->
        SumTo([j \in DOMAIN sm |->
                  SmoothScaled(sm, j, k) * dat[c][BASE].n[j]
                  * ProdTo([e \in 0..3 |-> IF e = out THEN 1
                                           ELSE dat[c][e].n[j]], 4)],
              Len0(sm))]

\* The raw message as the code computes it:
\*   raw[k] = base[k] * sum_j smoothness[k][j] * prod_{e # out} incoming[e][j]
\* with out = d.
RawAsCoded(dat, sm, c, out) ==
    [k \in DOMAIN sm |->
        dat[c][BASE].n[k]
        * SumTo([j \in DOMAIN sm |->
                    SmoothScaled(sm, k, j)
                    * ProdTo([e \in 0..3 |-> IF e = out THEN 1
                                             ELSE dat[c][e].n[j]], 4)],
                Len0(sm))]

\* C1 as claimed: after updateDirection(d) every receiver holds, in its
\* channel opposite(d), the normalization of the raw message in which the
\* base potential and the incoming messages are all indexed by the summed
\* sender axis and the channel left out is opposite(d).
C1_AsClaimed ==
    PassOk =>
        LET d == last.arg[1]
        IN  \A c \in Cells :
                HasNeighbor(c, d) =>
                    data[Neighbor(c, d)][Opposite(d)] =
                        IF FactorNaN(prev.data, prev.smoothness, c, Opposite(d))
                        THEN NaNVec(num_beliefs)
                        ELSE Normalized(RawAsSpecified(prev.data,
                                 prev.smoothness, c, Opposite(d)))

\* C1 amended: after updateDirection(d) every receiver holds, in its channel
\* opposite(d), the normalization of
\*   raw[k] = base[sender][k] * sum_j smoothness[k][j]
\*                            * prod_{e # d} incoming[sender][e][j]:
\* the base potential is indexed by the output axis k, the three included
\* messages by the summed axis j, and the channel left out is the sender's
\* channel d.
C1_MessageRule ==
    PassOk =>
        LET d == last.arg[1]
        IN  \A c \in Cells :
                HasNeighbor(c, d) =>
                    data[Neighbor(c, d)][Opposite(d)] =
                        IF FactorNaN(prev.data, prev.smoothness, c, d)
                        THEN NaNVec(num_beliefs)
                        ELSE Normalized(RawAsCoded(prev.data,
                                 prev.smoothness, c, d))

\* a pass whose sender had a base potential and incoming messages that are
\* not uniform, and whose message came out not uniform
C1_Witness ==
    /\ PassOk
    /\ \E c \in Cells :
           LET d == last.arg[1]
           IN  /\ HasNeighbor(c, d)
               /\ prev.data[c][BASE] # Uniform(num_beliefs)
               /\ \E e \in MessageChannels \ {d} :
                      prev.data[c][e] # Uniform(num_beliefs)
               /\ ~IsNaN(data[Neighbor(c, d)][Opposite(d)])
               /\ data[Neighbor(c, d)][Opposite(d)] # Uniform(num_beliefs)

\* ---------------------------------------------------------------------- C2
\* C2: updateDirection(d) changes nothing but the channel opposite(d) of the
\* cells that have a neighbor in direction opposite(d); the base channel,
\* the other three channels, the smoothness table and the opposite(d)
\* channel of the cells without a sender stay as they were.
C2_Frame ==
    PassOk =>
        LET d == last.arg[1]
        IN  /\ smoothness = prev.smoothness
            /\ \A c \in Cells : \A ch \in DIRECTIONS :
                   (ch # Opposite(d) \/ ~HasNeighbor(c, Opposite(d))) =>
                       data[c][ch] = prev.data[c][ch]

C2_Witness ==
    /\ PassOk
    /\ \E c \in Cells :
           data[c][Opposite(last.arg[1])] # prev.data[c][Opposite(last.arg[1])]
    /\ \E c \in Cells : ~HasNeighbor(c, Opposite(last.arg[1]))

\* ---------------------------------------------------------------------- C3
AllMessagesSumToOne ==
    \A c \in Cells : \A ch \in MessageChannels : SumsToOne(data[c][ch])

AllUniform ==
    \A c \in Cells : \A ch \in DIRECTIONS : data[c][ch] = Uniform(num_beliefs)

ValidPassCall ==
    \/ last.op = "pass_messages_all"
    \/ last.op = "pass_messages" /\ last.arg[1] \in MessageChannels

\* C4 as claimed: with no base potential and no smoothness given, the new
\* MRF has every base and message vector and every smoothness row uniform
\* 1/K, and a pass made before any setter succeeds.
C4_AsClaimed ==
    (~supplied.base /\ ~supplied.smoothness) =>
        /\ last.op = "create" =>
               /\ AllUniform
               /\ smoothness = [a \in Beliefs |-> Uniform(num_beliefs)]
        /\ ValidPassCall => last.err = "none"

\* C4 amended: with no base potential and no smoothness given, the new MRF
\* has every base and message vector uniform 1/K but no smoothness table,
\* and a pass made before a smoothness array is given fails and changes
\* nothing.
C4_NeedsSmoothness ==
    /\ (last.op = "create" /\ ~supplied.base) => AllUniform
    /\ ~supplied.smoothness =>
           /\ smoothness = Unset
           /\ ValidPassCall =>
                  /\ last.err = "SmoothnessUnset"
                  /\ data = prev.data
                  /\ smoothness = prev.smoothness

C4_Witness ==
    /\ ~supplied.base
    /\ ~supplied.smoothness
    /\ num_beliefs > 1
    /\ ValidPassCall
    /\ last.err = "SmoothnessUnset"

\* ---------------------------------------------------------------------- C5
FailureKinds == {"ShapeMismatch", "BeliefCountMismatch", "InvalidDirection"}

\* C5: a call that fails leaves the data array and the smoothness table as
\* they were, and the failing calls are these: init_base_belief given another
\* height or width (ShapeMismatch) or another number of beliefs
\* (BeliefCountMismatch), init_smoothness given an array that is not K by K
\* (ShapeMismatch), pass_messages given BASE or a number that is no
\* direction (InvalidDirection).
C5_FailBeforeWrite ==
    /\ last.err \in FailureKinds =>
           /\ data = prev.data
           /\ smoothness = prev.smoothness
    /\ last.op = "init_base_belief" =>
           last.err = IF last.arg[1] # height \/ last.arg[2] # width
                      THEN "ShapeMismatch"
                      ELSE IF last.arg[3] # num_beliefs
                           THEN "BeliefCountMismatch"
                           ELSE "none"
    /\ last.op = "init_smoothness" =>
           last.err = IF last.arg[1] # num_beliefs \/ last.arg[2] # num_beliefs
                      THEN "ShapeMismatch"
                      ELSE "none"
    /\ (last.op = "pass_messages" /\ last.arg[1] \notin MessageChannels) =>
           last.err = "InvalidDirection"

\* a failing call made on an MRF whose messages are no longer the initial
\* ones
C5_Witness ==
    /\ last.err \in FailureKinds
    /\ \E c \in Cells : \E ch \in MessageChannels :
           data[c][ch] # Uniform(num_beliefs)

\* ---------------------------------------------------------------------- C6
\* the elementwise product of the five channels of cell c, over the common
\* denominator of the five
Score(c) ==
    [k \in Beliefs |->
        data[c][BASE].n[k] * data[c][RIGHT].n[k] * data[c][UP].n[k]
            * data[c][LEFT].n[k] * data[c][DOWN].n[k]]

\* C6: calc_belief returns, for every cell, the smallest index in [0, K) at
\* which the product of the five channels is largest (index 0 where the
\* product is NaN in every entry), and changes neither the data array nor
\* the smoothness table.
C6_FirstArgMax ==
    last.op = "calc_belief" =>
        /\ data = prev.data
        /\ smoothness = prev.smoothness
        /\ DOMAIN belief = Cells
        /\ \A c \in Cells :
               /\ belief[c] \in Beliefs
               /\ IF \E ch \in DIRECTIONS : IsNaN(data[c][ch])
                  THEN belief[c] = 0
                  ELSE /\ \A k \in Beliefs : Score(c)[k] <= Score(c)[belief[c]]
                       /\ \A k \in Beliefs :
                              k < belief[c] => Score(c)[k] < Score(c)[belief[c]]

\* a decoding with a cell whose largest score is not at index 0 and a cell
\* whose largest score is attained twice
C6_Witness ==
    /\ last.op = "calc_belief"
    /\ \E c \in Cells : belief[c] # 0
    /\ \E c \in Cells : \E k \in Beliefs :
           /\ k # belief[c]
           /\ ~(\E ch \in DIRECTIONS : IsNaN(data[c][ch]))
           /\ Score(c)[k] = Score(c)[belief[c]]

\* ---------------------------------------------------------------------- C7
\* C7: pass_messages() with no direction leaves the array that the passes
\* RIGHT, UP, LEFT, DOWN leave when made in this order, each on the array
\* the one before it left.
C7_SweepOrder ==
    SweepOk =>
        data = PassMessages(
                   PassMessages(
                       PassMessages(
                           PassMessages(prev.data, prev.smoothness, RIGHT),
                           prev.smoothness, UP),
                       prev.smoothness, LEFT),
                   prev.smoothness, DOWN)

C7_Witness ==
    /\ SweepOk
    /\ height > 1
    /\ width > 1
    /\ \A c \in Cells : \A ch \in MessageChannels :
           HasNeighbor(c, ch) =>
               /\ data[c][ch] # prev.data[c][ch]
               /\ ~IsNaN(data[c][ch])

\* ---------------------------------------------------------------------- C8
\* C8: in every reachable state the LEFT channel of column 0, the RIGHT
\* channel of column W-1, the UP channel of row 0 and the DOWN channel of
\* row H-1 hold the uniform vector 1/K.
C8_BorderUniform ==
    \A c \in Cells : \A ch \in MessageChannels :
        ~HasNeighbor(c, ch) => data[c][ch] = Uniform(num_beliefs)

C8_Witness ==
    /\ steps = MaxSteps
    /\ SweepOk
    /\ num_beliefs > 1
    /\ \A c \in Cells : \A ch \in MessageChannels :
           HasNeighbor(c, ch) =>
               /\ data[c][ch] # Uniform(num_beliefs)
               /\ ~IsNaN(data[c][ch])

\* ---------------------------------------------------------------------- C9
\* C9: after updateDirection(d) the array is the array before the call with
\* the channel opposite(d) of every receiver replaced by the message its
\* sender computes from the array before the call.
C9_Snapshot ==
    PassOk =>
        LET d == last.arg[1]
        IN  data =
              [r \in Cells |->
                 IF HasNeighbor(r, Opposite(d))
                 THEN [prev.data[r] EXCEPT ![Opposite(d)] =
                          Message(prev.data, prev.smoothness, d,
                                  Neighbor(r, Opposite(d)))]
                 ELSE prev.data[r]]

\* the first pass on a new MRF, where passing cell by cell on the array
\* itself would have left another array
C9_Witness ==
    /\ PassOk
    /\ steps = 1
    /\ data # PassMessagesInPlace(prev.data, prev.smoothness, last.arg[1])

\* --------------------------------------------------------------------- C10
\* vectors to put in place of the message a sender received from its
\* receiver
AltVecs ==
    {Normalized([j \in Beliefs |-> j + 1]), NaNVec(num_beliefs)}

\* dat with channel d of every cell sending in direction d replaced by v
WithReceived(dat, d, v) ==
    [c \in Cells |->
        IF HasNeighbor(c, d) THEN [dat[c] EXCEPT ![d] = v] ELSE dat[c]]

\* C10: the messages updateDirection(d) writes do not depend on the
\* senders' channel d, the message a sender received from its receiver: a
\* pass on the array and a pass on the array with that channel replaced
\* write the same messages.
C10_NoEcho ==
    (smoothness # Unset /\ Small(data)) =>
        \A d \in MessageChannels : \A v \in AltVecs :
            LET one == PassMessages(data, smoothness, d)
                two == PassMessages(WithReceived(data, d, v), smoothness, d)
            IN  \A r \in Cells : one[r][Opposite(d)] = two[r][Opposite(d)]

\* a pass in direction d made when a sender held a message, received from
\* its receiver, that is not uniform and is not one of the replacements
C10_Witness ==
    /\ PassOk
    /\ \E c \in Cells :
           /\ HasNeighbor(c, last.arg[1])
           /\ prev.data[c][last.arg[1]] # Uniform(num_beliefs)
           /\ prev.data[c][last.arg[1]] \notin AltVecs
           /\ data[Neighbor(c, last.arg[1])][Opposite(last.arg[1])]
                  # Uniform(num_beliefs)

====
